---- MODULE Spec2Model ----
(***************************************************************************)
(* Model of outputmain.cpp: main, add and sub, with the IEEE-754 binary64  *)
(* arithmetic of `double` and the text that operator<< writes for a        *)
(* double and for an int.                                                  *)
(*                                                                         *)
(* A finite double is a sign and a magnitude; the magnitude is the set of  *)
(* the exponents of its binary digits (the value is the sum of 2^k over    *)
(* k in bits), so the arithmetic below is exact and is rounded exactly as  *)
(* the hardware rounds it (to nearest, ties to even).                      *)
(***************************************************************************)
EXTENDS Integers, Sequences, FiniteSets, TLC

\* ---------------------------------------------------------- evaluation

\* F applied to the value of a (of a and b): the argument is evaluated once,
\* however often F uses it.
Let1(a, F(_)) == CHOOSE r \in {F(x) : x \in {a}} : TRUE

Let2(a, b, F(_, _)) == CHOOSE r \in {F(x, y) : x \in {a}, y \in {b}} : TRUE

\* ------------------------------------------------------------ binary64

\* Significand width, exponent of the lowest subnormal digit and of the
\* highest digit of a finite double.
MantBits == 53
MinExp == -1074
MaxExp == 1023

\* The largest and the smallest element of a non-empty set of integers
\* (only an element whose neighbour is missing is compared with the rest).
MaxOf(S0) ==
    Let1(S0, LAMBDA S : CHOOSE m \in S : (m + 1) \notin S /\ \A k \in S : k <= m)

MinOf(S0) ==
    Let1(S0, LAMBDA S : CHOOSE m \in S : (m - 1) \notin S /\ \A k \in S : m <= k)

ShiftBits(S, n0) == Let1(n0, LAMBDA n : {k + n : k \in S})

RECURSIVE Pow2(_)
Pow2(n0) ==
    Let1(n0, LAMBDA n :
        IF n = 0 THEN 1
        ELSE IF n % 2 = 0 THEN Let1(Pow2(n \div 2), LAMBDA h : h * h)
        ELSE 2 * Pow2(n - 1))

\* The binary digits of a non-negative int.
BitsOfNat(n0) == Let1(n0, LAMBDA n : {k \in 0..30 : (n \div Pow2(k)) % 2 = 1})

\* The int whose binary digits are S (halving S keeps the evaluation shallow).
RECURSIVE NatOfBits(_)
NatOfBits(S0) ==
    Let1(S0, LAMBDA S :
        IF S = {} THEN 0
        ELSE Let2(MinOf(S), MaxOf(S), LAMBDA lo, hi :
            IF lo = hi THEN Pow2(hi)
            ELSE NatOfBits({k \in S : 2 * k < lo + hi + 1})
                 + NatOfBits({k \in S : 2 * k >= lo + hi + 1})))

\* Exact sum of two magnitudes. Digit k of the sum is s_k xor t_k xor the
\* carry into k, and a carry enters k iff some lower position holds a digit
\* of both and every position between holds a digit of exactly one.
AddBits(S0, T0) ==
    Let2(S0, T0, LAMBDA S, T :
        Let2(S \cap T, (S \cup T) \ (S \cap T), LAMBDA G, X :
            IF G = {} THEN X
            ELSE {k \in S \cup T \cup ShiftBits(S \cup T, 1) :
                    (k \in X) # (\E j \in G : j < k /\ ((j + 1)..(k - 1)) \subseteq X)}))

\* S > T as magnitudes.
GtBits(S0, T0) ==
    Let2(S0, T0, LAMBDA S, T : S # T /\ MaxOf((S \ T) \cup (T \ S)) \in S)

GeBits(S0, T0) ==
    Let2(S0, T0, LAMBDA S, T : S = T \/ MaxOf((S \ T) \cup (T \ S)) \in S)

\* Exact difference S - T of two magnitudes, S >= T. Digit k is s_k xor t_k
\* xor the borrow from k, and k is borrowed from iff some lower position
\* holds a digit of T alone and no position between holds a digit of S alone.
SubBits(S0, T0) ==
    Let2(S0 \ T0, T0 \ S0, LAMBDA A, B :
        IF B = {} THEN A
        ELSE Let2(MinOf(B), MaxOf(A), LAMBDA lo, hi :
            {k \in A : k < lo}
            \cup {k \in lo..hi :
                    (k \in A \cup B)
                    # (\E j \in B : j < k /\ \A i \in A : ~(j < i /\ i < k))}))

\* Exact product of two magnitudes: S shifted by each digit of T, summed
\* (halving T keeps the evaluation shallow).
RECURSIVE MulBits(_, _)
MulBits(S0, T0) ==
    Let2(S0, T0, LAMBDA S, T :
        IF T = {} \/ S = {} THEN {}
        ELSE Let2(MinOf(T), MaxOf(T), LAMBDA lo, hi :
            IF lo = hi THEN ShiftBits(S, hi)
            ELSE AddBits(MulBits(S, {k \in T : 2 * k < lo + hi + 1}),
                         MulBits(S, {k \in T : 2 * k >= lo + hi + 1}))))

Finite(sgn, bits) == [cls |-> "fin", sgn |-> sgn, bits |-> bits]

Infinity(sgn) == [cls |-> "inf", sgn |-> sgn, bits |-> {}]

NaN == [cls |-> "nan", sgn |-> 0, bits |-> {}]

IsFinite(d) == d.cls = "fin"

IsZero(d) == d.cls = "fin" /\ d.bits = {}

\* An exact magnitude rounded to a double: to nearest, ties to even, at the
\* 53rd digit below the leading one (or at 2^MinExp for a subnormal);
\* overflow gives infinity.
RoundToDouble(sgn, S0) ==
    Let1(S0, LAMBDA S :
        IF S = {} THEN Finite(sgn, {})
        ELSE Let1(MaxOf(S), LAMBDA top :
            LET lsb  == IF top - (MantBits - 1) < MinExp THEN MinExp
                        ELSE top - (MantBits - 1)
                up   == /\ (lsb - 1) \in S
                        /\ (\E k \in S : k < lsb - 1) \/ lsb \in S
            IN Let1(IF up THEN AddBits({k \in S : k >= lsb}, {lsb})
                    ELSE {k \in S : k >= lsb},
                    LAMBDA res : IF MaxOf(res) > MaxExp THEN Infinity(sgn)
                                 ELSE Finite(sgn, res))))

\* val_a + val_b on doubles.
FAdd(x0, y0) ==
    Let2(x0, y0, LAMBDA x, y :
        IF x.cls = "nan" \/ y.cls = "nan" THEN NaN
        ELSE IF x.cls = "inf" /\ y.cls = "inf"
             THEN IF x.sgn = y.sgn THEN x ELSE NaN
        ELSE IF x.cls = "inf" THEN x
        ELSE IF y.cls = "inf" THEN y
        ELSE IF x.sgn = y.sgn THEN RoundToDouble(x.sgn, AddBits(x.bits, y.bits))
        ELSE IF x.bits = y.bits THEN Finite(0, {})
        ELSE IF GtBits(x.bits, y.bits)
             THEN RoundToDouble(x.sgn, SubBits(x.bits, y.bits))
        ELSE RoundToDouble(y.sgn, SubBits(y.bits, x.bits)))

\* Unary minus on a double.
FNeg(x0) ==
    Let1(x0, LAMBDA x : IF x.cls = "nan" THEN x ELSE [x EXCEPT !.sgn = 1 - x.sgn])

\* val_a - val_b on doubles.
FSub(x, y) == FAdd(x, FNeg(y))

\* operator== on doubles: a NaN equals nothing, the two zeros are equal.
FEq(x0, y0) ==
    Let2(x0, y0, LAMBDA x, y :
        /\ x.cls # "nan"
        /\ y.cls # "nan"
        /\ (IsZero(x) /\ IsZero(y)) \/ x = y)

\* The int-to-double conversion of an argument (int b = 5 passed as a
\* double); every int is exact in a double.
DoubleOfInt(n0) ==
    Let1(n0, LAMBDA n :
        IF n < 0 THEN Finite(1, BitsOfNat(0 - n)) ELSE Finite(0, BitsOfNat(n)))

\* The binary exponent e of p/q > 0: 2^e <= p/q < 2^(e+1).
RECURSIVE ExpOfRatio(_, _)
ExpOfRatio(p0, q0) ==
    Let2(p0, q0, LAMBDA p, q :
        IF p >= 2 * q THEN 1 + ExpOfRatio(p, 2 * q)
        ELSE IF p < q THEN ExpOfRatio(2 * p, q) - 1
        ELSE 0)

RECURSIVE Pow10(_)
Pow10(n0) == Let1(n0, LAMBDA n : IF n = 0 THEN 1 ELSE 10 * Pow10(n - 1))

\* 2^k mod q, by squaring.
RECURSIVE PowMod2(_, _)
PowMod2(k0, q0) ==
    Let2(k0, q0, LAMBDA k, q :
        IF k = 0 THEN 1 % q
        ELSE IF k % 2 = 0 THEN Let1(PowMod2(k \div 2, q), LAMBDA h : (h * h) % q)
        ELSE (2 * PowMod2(k - 1, q)) % q)

\* Long division of P by Q, P / Q in [1, 2), to MantBits binary digits from
\* 2^e down, rounded to nearest (ties to even): the remainder after the
\* digit at 2^(e-k) is P * 2^k mod Q, and the next digit is 1 iff twice that
\* remainder reaches Q.
LongDivision(P, Q, e) ==
    Let1({e - k : k \in {j \in 0..(MantBits - 1) :
                           j = 0 \/ 2 * ((P * PowMod2(j - 1, Q)) % Q) >= Q}},
         LAMBDA trunc :
            Let1(2 * ((P * PowMod2(MantBits - 1, Q)) % Q), LAMBDA rest :
                IF rest > Q \/ (rest = Q /\ (e - (MantBits - 1)) \in trunc)
                THEN AddBits(trunc, {e - (MantBits - 1)})
                ELSE trunc))

\* The double a decimal literal denotes: digits / 10^scale (1.1 is 11 / 10^1),
\* correctly rounded.
DoubleOfLiteral(digits, scale) ==
    IF digits = 0 THEN Finite(0, {})
    ELSE Let1(ExpOfRatio(digits, Pow10(scale)), LAMBDA e :
            Finite(0, LongDivision(IF e < 0 THEN digits * Pow2(0 - e) ELSE digits,
                                   IF e > 0 THEN Pow10(scale) * Pow2(e) ELSE Pow10(scale),
                                   e)))

\* ------------------------------------------------- operator<< (text)

Digits == <<"0", "1", "2", "3", "4", "5", "6", "7", "8", "9">>

\* The decimal digits of a non-negative int, most significant first.
RECURSIVE NatDigits(_)
NatDigits(n0) ==
    Let1(n0, LAMBDA n : IF n < 10 THEN <<n>> ELSE Append(NatDigits(n \div 10), n % 10))

RECURSIVE DigitsToStr(_)
DigitsToStr(ds0) ==
    Let1(ds0, LAMBDA ds :
        IF ds = <<>> THEN "" ELSE Digits[Head(ds) + 1] \o DigitsToStr(Tail(ds)))

\* std::cout << int: the decimal digits, a minus sign before a negative.
FormatInt(n0) ==
    Let1(n0, LAMBDA n :
        IF n < 0 THEN "-" \o DigitsToStr(NatDigits(0 - n)) ELSE DigitsToStr(NatDigits(n)))

\* The stream's default precision: significant digits written for a double.
Precision == 6

\* 10^n as a magnitude.
RECURSIVE Pow10Bits(_)
Pow10Bits(n0) ==
    Let1(n0, LAMBDA n :
        IF n <= 9 THEN BitsOfNat(Pow10(n))
        ELSE MulBits(Pow10Bits(n \div 2), Pow10Bits(n - (n \div 2))))

\* Whether the magnitude S is at least 10^X.
GePow10(S, X0) ==
    Let1(X0, LAMBDA X :
        IF X >= 0 THEN GeBits(S, Pow10Bits(X))
        ELSE GeBits(MulBits(S, Pow10Bits(0 - X)), {0}))

\* The decimal exponent X of a magnitude S # {}: 10^X <= S < 10^(X+1). It
\* is within one of the binary exponent times log10(2).
DecimalExp(S0) ==
    Let2(S0, (MaxOf(S0) * 30103) \div 100000, LAMBDA S, guess :
        CHOOSE X \in (guess - 1)..(guess + 1) : GePow10(S, X) /\ ~GePow10(S, X + 1))

\* Long division of magnitudes over the quotient digits hi down to lo
\* (num / den < 2^(hi+1)): [q, rem] with num = q * den + rem, rem < den * 2^lo.
RECURSIVE DivBits(_, _, _, _)
DivBits(num0, den0, hi, lo) ==
    Let2(num0, den0, LAMBDA num, den :
        IF hi = lo
        THEN IF GeBits(num, ShiftBits(den, hi))
             THEN [q |-> {hi}, rem |-> SubBits(num, ShiftBits(den, hi))]
             ELSE [q |-> {}, rem |-> num]
        ELSE Let1(DivBits(num, den, hi, (hi + lo + 1) \div 2), LAMBDA upper :
                Let1(DivBits(upper.rem, den, ((hi + lo + 1) \div 2) - 1, lo), LAMBDA lower :
                    [q |-> upper.q \cup lower.q, rem |-> lower.rem])))

\* The Precision decimal digits of num / den (in [10^(Precision-1),
\* 10^Precision)), rounded to nearest (ties to even) on the exact value; X
\* is the decimal exponent of the first digit: [digits, exp].
RoundedDigits(num, den0, X) ==
    Let2(DivBits(num, den0, 19, 0), den0, LAMBDA d, den :
        Let1(NatOfBits(d.q)
             + (IF \/ GtBits(ShiftBits(d.rem, 1), den)
                   \/ (ShiftBits(d.rem, 1) = den /\ 0 \in d.q)
                THEN 1 ELSE 0),
             LAMBDA D :
                IF D = Pow10(Precision)
                THEN [digits |-> NatDigits(D \div 10), exp |-> X + 1]
                ELSE [digits |-> NatDigits(D), exp |-> X]))

\* The Precision significant decimal digits of a magnitude S # {}.
SignificantDigits(S0) ==
    Let2(S0, DecimalExp(S0), LAMBDA S, X :
        RoundedDigits(IF X < Precision - 1 THEN MulBits(S, Pow10Bits((Precision - 1) - X))
                      ELSE S,
                      IF X > Precision - 1 THEN Pow10Bits(X - (Precision - 1)) ELSE {0},
                      X))

RECURSIVE StripZeros(_)
StripZeros(ds0) ==
    Let1(ds0, LAMBDA ds :
        IF Len(ds) > 1 /\ ds[Len(ds)] = 0 THEN StripZeros(SubSeq(ds, 1, Len(ds) - 1))
        ELSE ds)

RECURSIVE Zeros(_)
Zeros(n0) == Let1(n0, LAMBDA n : IF n <= 0 THEN <<>> ELSE <<0>> \o Zeros(n - 1))

\* %g without '#' for significant digits ds (trailing zeros removed) and
\* decimal exponent X: fixed notation when -4 <= X < Precision, scientific
\* otherwise, with no bare decimal point.
FormatG(ds0, X0) ==
    Let2(ds0, X0, LAMBDA ds, X :
        IF X < -4 \/ X >= Precision
        THEN DigitsToStr(<<Head(ds)>>)
             \o (IF Len(ds) > 1 THEN "." \o DigitsToStr(Tail(ds)) ELSE "")
             \o "e" \o (IF X < 0 THEN "-" ELSE "+")
             \o (IF X < 10 /\ X > -10 THEN "0" ELSE "")
             \o DigitsToStr(NatDigits(IF X < 0 THEN 0 - X ELSE X))
        ELSE IF X < 0
        THEN "0." \o DigitsToStr(Zeros(0 - X - 1) \o ds)
        ELSE IF Len(ds) <= X + 1
        THEN DigitsToStr(ds \o Zeros(X + 1 - Len(ds)))
        ELSE DigitsToStr(SubSeq(ds, 1, X + 1)) \o "." \o DigitsToStr(SubSeq(ds, X + 2, Len(ds))))

FormatMagnitude(S) ==
    Let1(SignificantDigits(S), LAMBDA sd : FormatG(StripZeros(sd.digits), sd.exp))

\* std::cout << double with the default flags (the %g conversion).
FormatDouble(d0) ==
    Let1(d0, LAMBDA d :
        (IF d.sgn = 1 THEN "-" ELSE "")
        \o (IF d.cls = "nan" THEN "nan"
            ELSE IF d.cls = "inf" THEN "inf"
            ELSE IF d.bits = {} THEN "0"
            ELSE FormatMagnitude(d.bits)))

\* ------------------------------------------------------- the program

\* Largest number of command-line arguments and of earlier runs tried, and
\* the number of operand values the functions are applied to.
MaxArgc == 1
MaxReruns == 1
NumOperands == 8

ArgStrings == {"-v", "in.txt"}

VARIABLES
    argc, argv,   \* main's parameters
    pc,           \* the line of main about to execute; "done" after return
    locals,       \* main's local variables declared so far (and the two
                  \* temporaries of line 30, "sub_ab" and "sub_ba")
    cout,         \* the lines written to standard output, each tagged with
                  \* the function that wrote it
    exit,         \* <<>> while main runs, <<status>> once it has returned
    trace,        \* the calls and statements executed so far, in order
    finished,     \* what earlier runs of the executable did
    evalOrder,    \* the order in which this build evaluates the two
                  \* arguments of line 30 (unspecified by the language)
    op_a, op_b,   \* operands the functions are applied to directly
    results       \* the values those applications returned

vars == <<argc, argv, pc, locals, cout, exit, trace, finished, evalOrder,
          op_a, op_b, results>>

NoValues == [n \in {} |-> 0]

Line(by, text) == [by |-> by, text |-> text]

\* The literals of main: 1.1, 2.4, 3.2.
Lit_1_1 == DoubleOfLiteral(11, 1)
Lit_2_4 == DoubleOfLiteral(24, 1)
Lit_3_2 == DoubleOfLiteral(32, 1)

PlusZero == Finite(0, {})

\* t[i] on std::vector (indices from 0).
At(t, i) == t[i + 1]

\* std::unordered_set::clear().
Clear(s) == {}

\* add writing nothing.
add_Silent(val_a, val_b, out) == [ret |-> FAdd(val_a, val_b), cout |-> out]

\* add writing t[0] instead of t[1].
add_PrintsFirst(val_a, val_b, out) ==
    [ret |-> FAdd(val_a, val_b),
     cout |-> Append(out, Line("add", FormatInt(At(<<1, 2, 3>>, 0))))]

\* add letting its vector into the sum.
add_AddsElement(val_a, val_b, out) ==
    [ret |-> FAdd(FAdd(val_a, val_b), DoubleOfInt(At(<<1, 2, 3>>, 1))),
     cout |-> Append(out, Line("add", FormatInt(At(<<1, 2, 3>>, 1))))]

\* double add(double val_a, double val_b), called with standard output
\* holding `out`: the value returned and standard output afterwards.
add(val_a, val_b, out) ==
    LET t    == <<1, 2, 3>>
        out1 == Append(out, Line("add", FormatInt(At(t, 1))))
        s    == Clear({"a", "b", "c"})
    IN [ret |-> FAdd(val_a, val_b), cout |-> out1]

\* sub with its operands exchanged.
sub_Swapped(val_a, val_b, out) == [ret |-> FSub(val_b, val_a), cout |-> out]

\* sub adding, as add does.
sub_Adds(val_a, val_b, out) == [ret |-> FAdd(val_a, val_b), cout |-> out]

\* double sub(double val_a, double val_b), likewise.
sub(val_a, val_b, out) == [ret |-> FSub(val_a, val_b), cout |-> out]

MainVarsParked ==
    /\ argc = 0 /\ argv = <<>> /\ pc = "harness" /\ locals = NoValues
    /\ exit = <<>> /\ finished = <<>> /\ evalOrder = "LR"

Init ==
    /\ argc \in 0..MaxArgc
    /\ argv \in [1..argc -> ArgStrings]
    /\ pc = "L14"
    /\ locals = NoValues
    /\ cout = <<>>
    /\ exit = <<>>
    /\ trace = <<>>
    /\ finished = <<>>
    /\ evalOrder \in {"LR", "RL"}
    /\ op_a = PlusZero /\ op_b = PlusZero /\ results = NoValues

unchangedByMain == <<argc, argv, finished, evalOrder, op_a, op_b, results>>

\* double x = add(1.1, 2.4);
Main14 ==
    /\ pc = "L14"
    /\ \E c \in {add(Lit_1_1, Lit_2_4, cout)} :
          /\ locals' = locals @@ ("x" :> c.ret)
          /\ cout' = c.cout
    /\ trace' = Append(trace, "add1")
    /\ pc' = "L16"
    /\ UNCHANGED <<exit, unchangedByMain>>

\* Line 16 writing nothing.
Main16_Skipped ==
    /\ pc = "L16"
    /\ pc' = "L18"
    /\ UNCHANGED <<locals, cout, trace, exit, unchangedByMain>>

\* std::cout << x << std::endl;
Main16 ==
    /\ pc = "L16"
    /\ cout' = Append(cout, Line("main", FormatDouble(locals.x)))
    /\ trace' = Append(trace, "print1")
    /\ pc' = "L18"
    /\ UNCHANGED <<locals, exit, unchangedByMain>>

\* double a = 3.2;
Main18 ==
    /\ pc = "L18"
    /\ locals' = locals @@ ("a" :> Lit_3_2)
    /\ trace' = Append(trace, "a")
    /\ pc' = "L20"
    /\ UNCHANGED <<cout, exit, unchangedByMain>>

\* int b = 5;
Main20 ==
    /\ pc = "L20"
    /\ locals' = locals @@ ("b" :> 5)
    /\ trace' = Append(trace, "b")
    /\ pc' = "L24"
    /\ UNCHANGED <<cout, exit, unchangedByMain>>

\* Line 24 passing a twice.
Main24_AddsAA ==
    /\ pc = "L24"
    /\ \E c \in {add(locals.a, locals.a, cout)} :
          /\ locals' = locals @@ ("y" :> c.ret)
          /\ cout' = c.cout
    /\ trace' = Append(trace, "add2")
    /\ pc' = "L26"
    /\ UNCHANGED <<exit, unchangedByMain>>

\* double y = add(a, b);
Main24 ==
    /\ pc = "L24"
    /\ \E c \in {add(locals.a, DoubleOfInt(locals.b), cout)} :
          /\ locals' = locals @@ ("y" :> c.ret)
          /\ cout' = c.cout
    /\ trace' = Append(trace, "add2")
    /\ pc' = "L26"
    /\ UNCHANGED <<exit, unchangedByMain>>

\* std::cout << y << std::endl;
Main26 ==
    /\ pc = "L26"
    /\ cout' = Append(cout, Line("main", FormatDouble(locals.y)))
    /\ trace' = Append(trace, "print2")
    /\ pc' = "L30"
    /\ UNCHANGED <<locals, exit, unchangedByMain>>

\* double z = add(sub(a, b), sub(b, a)); the argument sub(a, b)
Main30SubAB ==
    /\ pc = "L30"
    /\ "sub_ab" \notin DOMAIN locals
    /\ evalOrder = "LR" \/ "sub_ba" \in DOMAIN locals
    /\ \E c \in {sub(locals.a, DoubleOfInt(locals.b), cout)} :
          /\ locals' = locals @@ ("sub_ab" :> c.ret)
          /\ cout' = c.cout
    /\ trace' = Append(trace, "sub_ab")
    /\ UNCHANGED <<pc, exit, unchangedByMain>>

\* double z = add(sub(a, b), sub(b, a)); the argument sub(b, a)
Main30SubBA ==
    /\ pc = "L30"
    /\ "sub_ba" \notin DOMAIN locals
    /\ evalOrder = "RL" \/ "sub_ab" \in DOMAIN locals
    /\ \E c \in {sub(DoubleOfInt(locals.b), locals.a, cout)} :
          /\ locals' = locals @@ ("sub_ba" :> c.ret)
          /\ cout' = c.cout
    /\ trace' = Append(trace, "sub_ba")
    /\ UNCHANGED <<pc, exit, unchangedByMain>>

\* double z = add(sub(a, b), sub(b, a)); the call of add
Main30Add ==
    /\ pc = "L30"
    /\ {"sub_ab", "sub_ba"} \subseteq DOMAIN locals
    /\ \E c \in {add(locals.sub_ab, locals.sub_ba, cout)} :
          /\ locals' = locals @@ ("z" :> c.ret)
          /\ cout' = c.cout
    /\ trace' = Append(trace, "add3")
    /\ pc' = "L32"
    /\ UNCHANGED <<exit, unchangedByMain>>

\* Line 32 writing nothing.
Main32_Skipped ==
    /\ pc = "L32"
    /\ trace' = Append(trace, "print3")
    /\ pc' = "L35"
    /\ UNCHANGED <<locals, cout, exit, unchangedByMain>>

\* std::cout << z << std::endl;
Main32 ==
    /\ pc = "L32"
    /\ cout' = Append(cout, Line("main", FormatDouble(locals.z)))
    /\ trace' = Append(trace, "print3")
    /\ pc' = "L35"
    /\ UNCHANGED <<locals, exit, unchangedByMain>>

\* main returning 1.
Main35_Fails ==
    /\ pc = "L35"
    /\ exit' = <<1>>
    /\ trace' = Append(trace, "return")
    /\ pc' = "done"
    /\ UNCHANGED <<locals, cout, unchangedByMain>>

\* main returning argc.
Main35_ReturnsArgc ==
    /\ pc = "L35"
    /\ exit' = <<argc>>
    /\ trace' = Append(trace, "return")
    /\ pc' = "done"
    /\ UNCHANGED <<locals, cout, unchangedByMain>>

\* return 0;
Main35 ==
    /\ pc = "L35"
    /\ exit' = <<0>>
    /\ trace' = Append(trace, "return")
    /\ pc' = "done"
    /\ UNCHANGED <<locals, cout, unchangedByMain>>

\* The executable is run again, with any arguments, after a run has ended.
Rerun ==
    /\ pc = "done"
    /\ Len(finished) < MaxReruns
    /\ finished' = Append(finished, [argc |-> argc, argv |-> argv, cout |-> cout,
                                     exit |-> exit, trace |-> trace])
    /\ argc' \in 0..MaxArgc
    /\ argv' \in [1..argc' -> ArgStrings]
    /\ pc' = "L14"
    /\ locals' = NoValues
    /\ cout' = <<>>
    /\ exit' = <<>>
    /\ trace' = <<>>
    /\ UNCHANGED <<evalOrder, op_a, op_b, results>>

Next ==
    \/ Main14 \/ Main16 \/ Main18 \/ Main20 \/ Main24 \/ Main26
    \/ Main30SubAB \/ Main30SubBA \/ Main30Add \/ Main32 \/ Main35
    \/ Rerun

Spec == Init /\ [][Next]_vars

\* main is straight-line code run by one thread: while a statement remains,
\* the next one is executed.
FairSpec == Spec /\ WF_vars(Next)

\* ------------------------------------- add and sub applied to operands

DblMax == Finite(0, (MaxExp - MantBits + 1)..MaxExp)

OperandList ==
    << PlusZero, Lit_1_1, DoubleOfInt(5), FNeg(Lit_3_2), DblMax, FNeg(DblMax),
       Finite(0, {MantBits}), Finite(1, {MinExp}), Finite(1, {}),
       Finite(0, {0}), Lit_2_4 >>

Operands == {OperandList[i] : i \in 1..NumOperands}

InitFn ==
    /\ op_a \in Operands
    /\ op_b \in Operands
    /\ results = NoValues
    /\ cout = <<>>
    /\ trace = <<>>
    /\ MainVarsParked

unchangedByCall == <<argc, argv, pc, locals, exit, finished, evalOrder, op_a, op_b>>

\* add(a, b)
CallAdd ==
    /\ "add" \notin DOMAIN results
    /\ \E c \in {add(op_a, op_b, cout)} :
          /\ results' = results @@ ("add" :> c.ret)
          /\ cout' = c.cout
    /\ UNCHANGED <<trace, unchangedByCall>>

\* add(b, a)
CallAddSwapped ==
    /\ "add_swapped" \notin DOMAIN results
    /\ \E c \in {add(op_b, op_a, cout)} :
          /\ results' = results @@ ("add_swapped" :> c.ret)
          /\ cout' = c.cout
    /\ UNCHANGED <<trace, unchangedByCall>>

\* sub(a, b)
CallSubAB ==
    /\ "sub_ab" \notin DOMAIN results
    /\ \E c \in {sub(op_a, op_b, cout)} :
          /\ results' = results @@ ("sub_ab" :> c.ret)
          /\ cout' = c.cout
    /\ trace' = Append(trace, "sub_ab")
    /\ UNCHANGED unchangedByCall

\* sub(b, a)
CallSubBA ==
    /\ "sub_ba" \notin DOMAIN results
    /\ \E c \in {sub(op_b, op_a, cout)} :
          /\ results' = results @@ ("sub_ba" :> c.ret)
          /\ cout' = c.cout
    /\ trace' = Append(trace, "sub_ba")
    /\ UNCHANGED unchangedByCall

\* add(sub(a, b), sub(b, a)), its two arguments evaluated in either order
CallCancel ==
    /\ "cancel" \notin DOMAIN results
    /\ {"sub_ab", "sub_ba"} \subseteq DOMAIN results
    /\ \E c \in {add(results.sub_ab, results.sub_ba, cout)} :
          /\ results' = results @@ ("cancel" :> c.ret)
          /\ cout' = c.cout
    /\ trace' = Append(trace, "cancel")
    /\ UNCHANGED unchangedByCall

NextFn == CallAdd \/ CallAddSwapped \/ CallSubAB \/ CallSubBA \/ CallCancel

SpecFn == InitFn /\ [][NextFn]_vars

\* ---------------------------------------------------------- properties

WrittenBy(f) == SelectSeq(cout, LAMBDA l : l.by = f)

Texts(ls) == [i \in DOMAIN ls |-> ls[i].text]

TwoLines == {i \in DOMAIN cout : cout[i].text = "2"}

\* The position of statement e in the trace, 0 if it has not been executed.
Pos(e) ==
    IF \E i \in DOMAIN trace : trace[i] = e
    THEN CHOOSE i \in DOMAIN trace : trace[i] = e
    ELSE 0

\* f has been executed only after e.
Before(e, f) == Pos(f) # 0 => (Pos(e) # 0 /\ Pos(e) < Pos(f))

IsPrefix(u, w) == Len(u) <= Len(w) /\ SubSeq(w, 1, Len(u)) = u

AddCallsOfMain == {i \in DOMAIN trace : trace[i] \in {"add1", "add2", "add3"}}

AddResults == {"add", "add_swapped", "cancel"}

\* C1 as stated: a complete run writes exactly four lines, the three results
\* and a single line `2`.
C1_FourLines ==
    pc = "done" => Len(cout) = 4 /\ Cardinality(TwoLines) = 1

\* C1 as amended: a complete run writes exactly six lines, the three results
\* written by main and three lines `2`, one written by each call of add.
C1_SixLines ==
    pc = "done" =>
        /\ Len(cout) = 6
        /\ Len(WrittenBy("main")) = 3
        /\ Len(WrittenBy("add")) = 3
        /\ Cardinality(TwoLines) = 3

C1_Witness == pc = "done" /\ Len(cout) = 6 /\ exit = <<0>>

\* C2 as stated: a call of add leaves standard output as it was.
C2_NoSideEffect ==
    [][(DOMAIN results' \ DOMAIN results) \cap AddResults # {} => cout' = cout]_vars

\* C2 as amended: a call of add appends exactly one line `2` to standard
\* output and changes nothing else outside the call: its operands and the
\* values earlier calls returned are as before.
C2_WritesOneLine ==
    [][(DOMAIN results' \ DOMAIN results) \cap AddResults # {} =>
          /\ cout' = Append(cout, Line("add", "2"))
          /\ op_a' = op_a /\ op_b' = op_b
          /\ \A n \in DOMAIN results : results'[n] = results[n]
          /\ UNCHANGED <<argc, argv, pc, locals, exit, finished, evalOrder>>]_vars

C2_Witness == "add" \in DOMAIN results /\ Len(cout) >= 1 /\ op_a # op_b

\* C3: main performs add(1.1, 2.4), add(a, b) and add(sub(a, b), sub(b, a))
\* in that order; each result is printed by the statement right after its
\* computation, before any statement of the next computation, and the line
\* printed is the text of the value computed.
C3_ComputeThenPrint ==
    /\ \A e \in {"add1", "add2", "add3", "print1", "print2", "print3"} :
          Cardinality({i \in DOMAIN trace : trace[i] = e}) <= 1
    /\ Pos("print1") # 0 => Pos("add1") # 0 /\ Pos("print1") = Pos("add1") + 1
    /\ Pos("print2") # 0 => Pos("add2") # 0 /\ Pos("print2") = Pos("add2") + 1
    /\ Pos("print3") # 0 => Pos("add3") # 0 /\ Pos("print3") = Pos("add3") + 1
    /\ \A e \in {"a", "b", "add2"} : Before("print1", e)
    /\ \A e \in {"sub_ab", "sub_ba", "add3"} : Before("print2", e)
    /\ Before("sub_ab", "add3") /\ Before("sub_ba", "add3")
    /\ Before("print3", "return")
    /\ Len(WrittenBy("main")) = Cardinality({e \in {"print1", "print2", "print3"} : Pos(e) # 0})
    /\ Pos("print1") # 0 => WrittenBy("main")[1].text = FormatDouble(locals.x)
    /\ Pos("print2") # 0 => WrittenBy("main")[2].text = FormatDouble(locals.y)
    /\ Pos("print3") # 0 => WrittenBy("main")[3].text = FormatDouble(locals.z)

C3_Witness == Pos("print3") # 0 /\ Pos("sub_ba") # 0 /\ Pos("sub_ba") < Pos("sub_ab")

\* C4: with the literals 1.1 and 2.4, a = 3.2 and the int b = 5, the lines
\* main has printed when it returns are 3.5, 8.2 and 0, in that order.
C4_Results ==
    pc = "done" =>
        /\ locals.a = Lit_3_2 /\ locals.b = 5
        /\ Texts(WrittenBy("main")) = <<"3.5", "8.2", "0">>

C4_Witness == pc = "done" /\ "z" \in DOMAIN locals /\ IsZero(locals.z)

\* C5: every run reaches the return of main, with status 0 and after the
\* third result has been printed.
C5_Terminates ==
    (pc # "done") ~> (pc = "done" /\ exit = <<0>> /\ Pos("print3") # 0)

C5_Witness == pc = "done" /\ exit = <<0>> /\ Pos("return") = Len(trace)

\* C6: for finite operands add(x, y) is x + y, and add(x, y) == add(y, x).
C6_AddIsSum ==
    /\ "add" \in DOMAIN results => FEq(results.add, FAdd(op_a, op_b))
    /\ "add_swapped" \in DOMAIN results => FEq(results.add_swapped, FAdd(op_b, op_a))
    /\ {"add", "add_swapped"} \subseteq DOMAIN results =>
          FEq(results.add, results.add_swapped)

C6_Witness ==
    /\ {"add", "add_swapped"} \subseteq DOMAIN results
    /\ op_a # op_b
    /\ IsFinite(results.add) /\ ~IsZero(results.add)

\* C7: for finite operands sub(x, y) is x - y and sub(x, y) == -sub(y, x);
\* sub writes nothing: every line of standard output comes from a call of
\* add.
C7_SubIsDifference ==
    /\ "sub_ab" \in DOMAIN results => FEq(results.sub_ab, FSub(op_a, op_b))
    /\ "sub_ba" \in DOMAIN results => FEq(results.sub_ba, FSub(op_b, op_a))
    /\ {"sub_ab", "sub_ba"} \subseteq DOMAIN results =>
          FEq(results.sub_ab, FNeg(results.sub_ba))
    /\ Len(cout) = Cardinality(DOMAIN results \cap AddResults)

C7_Witness ==
    /\ {"sub_ab", "sub_ba"} \subseteq DOMAIN results
    /\ IsFinite(results.sub_ab) /\ ~IsZero(results.sub_ab)

\* C8 as stated: for all finite a and b, add(sub(a, b), sub(b, a)) == 0.
C8_Cancels ==
    "cancel" \in DOMAIN results => FEq(results.cancel, PlusZero)

\* C8 as amended: for all finite a and b whose difference a - b is finite
\* (does not overflow to an infinity), add(sub(a, b), sub(b, a)) == 0,
\* whichever of the two arguments is evaluated first.
C8_CancelsUnlessOverflow ==
    ("cancel" \in DOMAIN results /\ IsFinite(results.sub_ab)) =>
        FEq(results.cancel, PlusZero)

C8_Witness ==
    /\ "cancel" \in DOMAIN results
    /\ trace[1] = "sub_ba"
    /\ IsFinite(results.sub_ab) /\ ~IsZero(results.sub_ab)

\* C9: a run does what every earlier run of the executable did, whatever the
\* arguments of either: the same statements in the same order, the same
\* standard output and, once it has returned, the same status.
C9_SameRun ==
    \A k \in DOMAIN finished :
        /\ IsPrefix(trace, finished[k].trace)
        /\ IsPrefix(cout, finished[k].cout)
        /\ pc = "done" =>
              /\ trace = finished[k].trace
              /\ cout = finished[k].cout
              /\ exit = finished[k].exit

C9_Witness ==
    /\ finished # <<>>
    /\ pc = "done"
    /\ finished[1].argc # argc

\* C10: every call of add writes one line `2` before it returns: each line
\* main prints comes right after a line `2` written by add, and add has
\* written as many lines, all `2`, as it has been called.
C10_TwoBeforeEachResult ==
    /\ \A i \in DOMAIN cout :
          cout[i].by = "main" => i > 1 /\ cout[i - 1] = Line("add", "2")
    /\ \A i \in DOMAIN cout : cout[i].by = "add" => cout[i].text = "2"
    /\ Len(WrittenBy("add")) = Cardinality(AddCallsOfMain)

C10_Witness == Len(WrittenBy("main")) = 3 /\ Cardinality(AddCallsOfMain) = 3

====
